---- MODULE Spec2Model ----
(***************************************************************************)
(* Mug Mockup API: the two deployments of POST /api/generate-mockup        *)
(* (inline mode, src/server.js; persistence mode, src/unnamed/part_001),   *)
(* GET /download/:filename and the retention sweep cleanupOldFiles.        *)
(***************************************************************************)
EXTENDS Integers, Sequences, FiniteSets, TLC

VARIABLES
    variant,    \* which server file is deployed: "inline" or "persist"
    req,        \* per request: the handler's locals and its position
    res,        \* per request: the HTTP responses sent, in order
    raised,     \* per request: the errors that reached the handler's catch
    effects,    \* per request: URLs fetched, model calls, transcodes, writes
    files,      \* the uploads directory: filename -> [mtimeMs, data]
    now,        \* Date.now()
    ticks,      \* number of clock advances so far
    sweep,      \* the last run of cleanupOldFiles
    dl          \* the GET /download/:filename request in flight

vars == <<variant, req, res, raised, effects, files, now, ticks, sweep, dl>>

----------------------------------------------------------------------------
(* Bounds of the model *)

MaxDim == 4        \* image widths and heights drawn for the transcoder: 1..MaxDim
MaxTicks == 2      \* clock advances
MaxFiles == 2      \* files in the uploads directory
MaxParts == 2      \* parts in the external model's first candidate

(* Program constants *)

DefaultMaxWidth == 2000            \* maxWidth = 2000, resize(2000, 2000, ...)
maxAge == 24 * 60 * 60 * 1000      \* retention window of cleanupOldFiles

----------------------------------------------------------------------------
(* Values *)

Undefined == "undefined"

\* !x for the strings a request body carries
Falsy(v) == v \in {Undefined, ""}

\* a byte buffer: the encoding it really is, who produced that encoding, and
\* the pixel size of the image it decodes to (0 x 0 when it is no image)
Buf(fmt, enc, w, h) == [fmt |-> fmt, enc |-> enc, w |-> w, h |-> h]

EmptyBuf == Buf("empty", "src", 0, 0)
HtmlBuf == Buf("html", "src", 0, 0)

\* sharp can decode it
Decodable(b) == b.fmt \in {"png", "jpeg"}

\* Buffer.toString('base64') and Buffer.from(s, 'base64')
ToBase64(b) == [b64 |-> b]
FromBase64(s) == s.b64

\* new Error(message): a message is a sequence of string fragments
Error(message) == [message |-> message]

\* the outcome of a call that may throw
Return(v) == [threw |-> FALSE, value |-> v]
Throw(e) == [threw |-> TRUE, error |-> e]

----------------------------------------------------------------------------
(* sharp *)

\* sharp(buffer) on bytes it cannot decode rejects with one of these
SharpInputError(b) ==
    IF b.fmt = "empty"
    THEN Error(<<"Input Buffer is empty">>)
    ELSE Error(<<"Input buffer contains unsupported image format">>)

\* sharp(buffer).png().toBuffer(): decode whatever the bytes really are and
\* encode the pixels again as PNG
SharpToPng(b) ==
    IF Decodable(b)
    THEN Return(Buf("png", "sharp", b.w, b.h))
    ELSE Throw(SharpInputError(b))

Max(a, b) == IF a >= b THEN a ELSE b

\* a / b rounded to the nearest integer, for a >= 0 and b > 0
RoundDiv(a, b) == (2 * a + b) \div (2 * b)

\* the resize without withoutEnlargement: the longer side always becomes m
ResizeInside_Enlarging(w, h, m) ==
    LET long == Max(w, h)
    IN  [w |-> Max(1, RoundDiv(w * m, long)),
         h |-> Max(1, RoundDiv(h * m, long))]

\* .resize(m, m, { fit: 'inside', withoutEnlargement: true }) on a w x h image:
\* one scale factor for both axes, the smallest that brings both inside m x m,
\* never above 1; each axis is rounded to whole pixels and keeps at least one
ResizeInside(w, h, m) ==
    IF w <= m /\ h <= m
    THEN [w |-> w, h |-> h]
    ELSE LET long == Max(w, h)
         IN  [w |-> Max(1, RoundDiv(w * m, long)),
              h |-> Max(1, RoundDiv(h * m, long))]

\* sharp(originalBuffer).resize(maxWidth, maxWidth, {...}).jpeg|png(...).toBuffer()
\* resize() rejects a width that is no positive integer when it is called;
\* toBuffer() rejects bytes that do not decode
SharpTranscode(b, maxWidth, fmt) ==
    IF maxWidth <= 0
    THEN Throw(Error(<<"Expected positive integer for width">>))
    ELSE IF ~Decodable(b)
    THEN Throw(SharpInputError(b))
    ELSE LET d == ResizeInside(b.w, b.h, maxWidth)
         IN  Return(Buf(fmt, "sharp", d.w, d.h))

----------------------------------------------------------------------------
(* Image Normalizer, src/server.js *)

\* the normalizer without its fast path
ensurePNG_AlwaysConvert(buffer, originalMimeType) ==
    LET png == SharpToPng(buffer)
    IN  IF png.threw
        THEN Throw(Error(<<"Failed to convert image to PNG: ">> \o png.error.message))
        ELSE Return([buffer |-> png.value, mimeType |-> "image/png"])

ensurePNG(buffer, originalMimeType) ==
    IF originalMimeType = "image/png"
    THEN Return([buffer |-> buffer, mimeType |-> "image/png"])
    ELSE LET png == SharpToPng(buffer)
         IN  IF png.threw
             THEN Throw(Error(<<"Failed to convert image to PNG: ">>
                              \o png.error.message))
             ELSE Return([buffer |-> png.value, mimeType |-> "image/png"])

----------------------------------------------------------------------------
(* Requests and what the environment hands to them *)

Reqs == {"r1", "r2"}

\* an object with no fields, a directory with no files
NoFields == [x \in {} |-> x]

\* null
Null == [null |-> TRUE]

\* a name made of the random part alone
Filename_RandomOnly(timestamp, randomId) == [timestamp |-> 0, randomId |-> randomId]

\* `mockup_${timestamp}_${randomId}.jpg`
Filename(timestamp, randomId) == [timestamp |-> timestamp, randomId |-> randomId]
NoFile == Filename(-1, "")

\* the handler's locals before a request arrives
IdleReq ==
    [pc |-> "idle", body |-> NoFields,
     mockupUrl |-> Undefined, designUrl |-> Undefined, referenceUrl |-> Undefined,
     outputFormat |-> Undefined, maxWidth |-> 0,
     mockupBase64 |-> Null, mockupMimeType |-> Undefined,
     designBase64 |-> Null, designMimeType |-> Undefined,
     referenceBase64 |-> Null, referenceMimeType |-> Undefined,
     originalBuffer |-> EmptyBuf, filename |-> NoFile]

\* the handler has returned: its locals are gone, req.body is what it was
DoneReq(r) == [IdleReq EXCEPT !.pc = "done", !.body = req[r].body]

NoEffects == [fetched |-> <<>>, modelCalls |-> <<>>, transcodes |-> <<>>,
              written |-> <<>>]

\* req.body: any subset of the fields may be present
OptField(name, vals) == {NoFields} \cup {name :> v : v \in vals}

Bodies ==
    {a @@ b @@ c @@ d @@ e :
        a \in OptField("mockupUrl", {"", "https://x/mug"}),
        b \in OptField("designUrl", {"https://x/logo"}),
        c \in OptField("referenceUrl", {"https://x/ref"}),
        d \in OptField("outputFormat", {"png"}),
        e \in OptField("maxWidth", {0, 2})}

\* destructuring with a default: the default applies to an absent field
Field(body, name, default) ==
    IF name \in DOMAIN body THEN body[name] ELSE default

\* what fetch(url) can come to: a rejection (unreachable host), a response
\* with a non-success status, or a success response with a body
ContentTypes == {Undefined, "image/png", "image/jpeg"}
FetchedBodies == {Buf("png", "src", 2, 2), Buf("jpeg", "src", 2, 2), HtmlBuf}

AllFetchOutcomes ==
    {[kind |-> "reject"]}
    \cup {[kind |-> "response", ok |-> FALSE, statusText |-> "Not Found",
           contentType |-> "text/html", body |-> HtmlBuf]}
    \cup [kind : {"response"}, ok : {TRUE}, statusText : {"OK"},
          contentType : ContentTypes, body : FetchedBodies]

\* the outcomes the request path is run on: every failure, a PNG declared
\* as PNG, and an HTML page declared as PNG or as JPEG
FetchOutcomes ==
    {f \in AllFetchOutcomes :
        f.kind = "response" /\ f.ok =>
            \/ f.contentType = "image/png" /\ f.body.fmt \in {"png", "html"}
            \/ f.contentType = "image/jpeg" /\ f.body.fmt = "html"}

\* what the external model can answer
GenImages == {Buf("png", "src", 3, 2), Buf("png", "src", 1, 1)}
TextPart == [inlineData |-> FALSE, data |-> Null]
InlinePart(data) == [inlineData |-> TRUE, data |-> data]
Parts ==
    {TextPart} \cup {InlinePart(ToBase64(b)) : b \in GenImages \cup {EmptyBuf}}
PartLists == UNION {[1..n -> Parts] : n \in 0..MaxParts}

ModelOutcomes ==
    {[kind |-> "reject"]}
    \cup {[kind |-> "response", hasCandidates |-> FALSE, candidates |-> <<>>]}
    \cup {[kind |-> "response", hasCandidates |-> TRUE, candidates |-> <<>>]}
    \cup {[kind |-> "response", hasCandidates |-> TRUE,
           candidates |-> <<[hasContent |-> FALSE, parts |-> <<>>]>>]}
    \cup {[kind |-> "response", hasCandidates |-> TRUE,
           candidates |-> <<[hasContent |-> TRUE, parts |-> ps]>>] :
             ps \in PartLists}

RandomIds == {"a1", "b2"}

----------------------------------------------------------------------------
(* Responses *)

Res400 ==
    [status |-> 400,
     body |-> [success |-> FALSE,
               error |-> <<"Missing required fields: mockupUrl and designUrl">>]]

\* a 500 that hides the error's message
Res500_Generic(error) ==
    [status |-> 500,
     body |-> [success |-> FALSE,
               error |-> <<"Failed to generate mockup">>,
               message |-> <<"Internal server error">>]]

Res500(error) ==
    [status |-> 500,
     body |-> [success |-> FALSE,
               error |-> <<"Failed to generate mockup">>,
               message |-> error.message]]

\* the inline deployment's success body
Res200Inline(finalMimeType, processedBuffer, outputFormat) ==
    [status |-> 200,
     body |-> [success |-> TRUE,
               image |-> [mime |-> finalMimeType,
                          base64 |-> ToBase64(processedBuffer)],
               mimeType |-> finalMimeType,
               format |-> outputFormat]]

BaseUrl == "http://localhost:3000"

\* the persistence deployment's success body
Res200Persist(filename) ==
    [status |-> 200,
     body |-> [success |-> TRUE,
               url |-> [base |-> BaseUrl, path |-> "/uploads/",
                        filename |-> filename],
               filename |-> filename,
               mimeType |-> "image/jpeg"]]

\* a catch block that logs the error and sends nothing
CatchBlock_NoResponse(r, error) ==
    /\ res' = res
    /\ raised' = [raised EXCEPT ![r] = Append(@, error)]
    /\ req' = [req EXCEPT ![r] = DoneReq(r)]

\* the handler's catch block: one 500 carrying the error's message
CatchBlock(r, error) ==
    /\ res' = [res EXCEPT ![r] = Append(@, Res500(error))]
    /\ raised' = [raised EXCEPT ![r] = Append(@, error)]
    /\ req' = [req EXCEPT ![r] = DoneReq(r)]

\* the remaining statements of the try block after a step that did not throw
Continue(r, next) ==
    /\ req' = [req EXCEPT ![r] = next]
    /\ UNCHANGED <<res, raised>>

----------------------------------------------------------------------------
(* POST /api/generate-mockup: validation (both deployments) *)

\* the validation with the second test left out
MissingRequired_MockupOnly(mockupUrl, designUrl) == Falsy(mockupUrl)

\* if (!mockupUrl || !designUrl)
MissingRequired(mockupUrl, designUrl) == Falsy(mockupUrl) \/ Falsy(designUrl)

InFlight == {q \in Reqs : req[q].pc \notin {"idle", "done"}}

\* a request arrives: destructure the body, validate, answer 400 or go on
Receive(r, body) ==
    /\ req[r].pc \in {"idle", "done"}
    /\ variant = "persist" =>
           Cardinality(DOMAIN files) + Cardinality(InFlight) < MaxFiles
    /\ LET mockupUrl == Field(body, "mockupUrl", Undefined)
           designUrl == Field(body, "designUrl", Undefined)
           inline == variant = "inline"
       IN  /\ effects' = [effects EXCEPT ![r] = NoEffects]
           /\ raised' = [raised EXCEPT ![r] = <<>>]
           /\ IF MissingRequired(mockupUrl, designUrl)
              THEN /\ res' = [res EXCEPT ![r] = <<Res400>>]
                   /\ req' = [req EXCEPT ![r] = [IdleReq EXCEPT !.pc = "done",
                                                               !.body = body]]
              ELSE /\ res' = [res EXCEPT ![r] = <<>>]
                   /\ req' = [req EXCEPT ![r] =
                        [IdleReq EXCEPT
                           !.pc = "fetchMockup",
                           !.body = body,
                           !.mockupUrl = mockupUrl,
                           !.designUrl = designUrl,
                           !.referenceUrl =
                               IF inline THEN Field(body, "referenceUrl", Undefined)
                               ELSE Undefined,
                           !.outputFormat =
                               IF inline THEN Field(body, "outputFormat", "jpeg")
                               ELSE Undefined,
                           !.maxWidth =
                               IF inline THEN Field(body, "maxWidth", DefaultMaxWidth)
                               ELSE 0]]
    /\ UNCHANGED <<variant, files, now, ticks, sweep, dl>>

\* effects[r] with one more fetch: the URL and what came back
Fetched(r, which, url, f) ==
    [effects EXCEPT ![r].fetched =
        Append(@, [which |-> which, url |-> url, outcome |-> f])]

\* headers.get('content-type') || 'image/png'
DeclaredType(f) == IF Falsy(f.contentType) THEN "image/png" ELSE f.contentType

----------------------------------------------------------------------------
(* Inline deployment, src/server.js *)

\* the load without the status check
LoadImage_IgnoreStatus(f, prefix) ==
    IF f.kind = "reject"
    THEN Throw(Error(<<"fetch failed">>))
    ELSE LET converted == ensurePNG(f.body, DeclaredType(f))
         IN  IF converted.threw
             THEN converted
             ELSE Return([base64 |-> ToBase64(converted.value.buffer),
                          mimeType |-> converted.value.mimeType])

\* fetch, check the status, read the body, normalize to PNG, encode base64
LoadImage(f, prefix) ==
    IF f.kind = "reject"
    THEN Throw(Error(<<"fetch failed">>))
    ELSE IF ~f.ok
    THEN Throw(Error(<<prefix, f.statusText>>))
    ELSE LET converted == ensurePNG(f.body, DeclaredType(f))
         IN  IF converted.threw
             THEN converted
             ELSE Return([base64 |-> ToBase64(converted.value.buffer),
                          mimeType |-> converted.value.mimeType])

Inline_FetchMockup(r, f) ==
    /\ variant = "inline"
    /\ req[r].pc = "fetchMockup"
    /\ effects' = Fetched(r, "mockup", req[r].mockupUrl, f)
    /\ LET mockup == LoadImage(f, "Failed to fetch mockup: ")
       IN  IF mockup.threw
           THEN CatchBlock(r, mockup.error)
           ELSE Continue(r, [req[r] EXCEPT
                               !.pc = "fetchDesign",
                               !.mockupBase64 = mockup.value.base64,
                               !.mockupMimeType = mockup.value.mimeType])
    /\ UNCHANGED <<variant, files, now, ticks, sweep, dl>>

Inline_FetchDesign(r, f) ==
    /\ variant = "inline"
    /\ req[r].pc = "fetchDesign"
    /\ effects' = Fetched(r, "design", req[r].designUrl, f)
    /\ LET design == LoadImage(f, "Failed to fetch design: ")
       IN  IF design.threw
           THEN CatchBlock(r, design.error)
           ELSE Continue(r, [req[r] EXCEPT
                               !.pc = IF Falsy(req[r].referenceUrl)
                                      THEN "generate" ELSE "fetchReference",
                               !.designBase64 = design.value.base64,
                               !.designMimeType = design.value.mimeType])
    /\ UNCHANGED <<variant, files, now, ticks, sweep, dl>>

\* the optional reference image: a non-success status is skipped, not thrown
LoadReference(f) ==
    IF f.kind = "reject"
    THEN Throw(Error(<<"fetch failed">>))
    ELSE IF ~f.ok
    THEN Return([base64 |-> Null, mimeType |-> Undefined])
    ELSE LET converted == ensurePNG(f.body, DeclaredType(f))
         IN  IF converted.threw
             THEN converted
             ELSE Return([base64 |-> ToBase64(converted.value.buffer),
                          mimeType |-> converted.value.mimeType])

Inline_FetchReference(r, f) ==
    /\ variant = "inline"
    /\ req[r].pc = "fetchReference"
    /\ effects' = Fetched(r, "reference", req[r].referenceUrl, f)
    /\ LET reference == LoadReference(f)
       IN  IF reference.threw
           THEN CatchBlock(r, reference.error)
           ELSE Continue(r, [req[r] EXCEPT
                               !.pc = "generate",
                               !.referenceBase64 = reference.value.base64,
                               !.referenceMimeType = reference.value.mimeType])
    /\ UNCHANGED <<variant, files, now, ticks, sweep, dl>>

\* a base64 string is truthy when it is neither null nor ""
Truthy64(s) == s # Null /\ s # ToBase64(EmptyBuf)

ImagePart(data, mimeType) == [kind |-> "inlineData", data |-> data, mimeType |-> mimeType]
PromptPart(images) == [kind |-> "text", images |-> images]

\* the parts array with the instruction text pushed first
InlinePayload_TextFirst(q) ==
    <<PromptPart(IF Truthy64(q.referenceBase64) THEN "three" ELSE "two")>>
    \o (IF Truthy64(q.referenceBase64)
        THEN <<ImagePart(q.referenceBase64, q.referenceMimeType)>>
        ELSE <<>>)
    \o <<ImagePart(q.mockupBase64, q.mockupMimeType),
         ImagePart(q.designBase64, q.designMimeType)>>

\* the parts array handed to model.generateContent
InlinePayload(q) ==
    (IF Truthy64(q.referenceBase64)
     THEN <<ImagePart(q.referenceBase64, q.referenceMimeType)>>
     ELSE <<>>)
    \o <<ImagePart(q.mockupBase64, q.mockupMimeType),
         ImagePart(q.designBase64, q.designMimeType),
         PromptPart(IF Truthy64(q.referenceBase64) THEN "three" ELSE "two")>>

\* the loop without its break: the last inline part wins
RECURSIVE FirstInline_Last(_, _)
FirstInline_Last(parts, i) ==
    IF i > Len(parts) THEN 0
    ELSE LET later == FirstInline_Last(parts, i + 1)
         IN  IF later # 0 THEN later
             ELSE IF parts[i].inlineData THEN i ELSE 0

\* for (const part of parts) { if (part.inlineData) { ...; break; } }
\* the index of the part the loop stops at, 0 when it runs to the end
RECURSIVE FirstInline(_, _)
FirstInline(parts, i) ==
    IF i > Len(parts) THEN 0
    ELSE IF parts[i].inlineData THEN i
    ELSE FirstInline(parts, i + 1)

\* the test without the length check
NoCandidates_FieldOnly(response) == ~response.hasCandidates

\* if (!response.candidates || response.candidates.length === 0)
NoCandidates(response) ==
    ~response.hasCandidates \/ Len(response.candidates) = 0

\* response.candidates[0].content.parts can be read: reading a property of
\* undefined throws a TypeError
HasContent(response) ==
    /\ response.hasCandidates
    /\ Len(response.candidates) > 0
    /\ response.candidates[1].hasContent

\* the inline deployment's result extraction: the image bytes, or the error
Inline_Extract(g) ==
    IF g.kind = "reject"
    THEN Throw(Error(<<"GoogleGenerativeAI Error">>))
    ELSE IF NoCandidates(g)
    THEN Throw(Error(<<"No response from AI model">>))
    ELSE IF ~HasContent(g)
    THEN Throw(Error(<<"Cannot read properties of undefined">>))
    ELSE LET parts == g.candidates[1].parts
             i == FirstInline(parts, 1)
             geminiImageBase64 == IF i = 0 THEN Null ELSE parts[i].data
         IN  IF ~Truthy64(geminiImageBase64)
             THEN Throw(Error(<<"No image in response">>))
             ELSE Return(FromBase64(geminiImageBase64))

Inline_Generate(r, g) ==
    /\ variant = "inline"
    /\ req[r].pc = "generate"
    /\ effects' = [effects EXCEPT ![r].modelCalls =
                       Append(@, [payload |-> InlinePayload(req[r]), answer |-> g])]
    /\ LET extracted == Inline_Extract(g)
       IN  IF extracted.threw
           THEN CatchBlock(r, extracted.error)
           ELSE Continue(r, [req[r] EXCEPT
                               !.pc = "transcode",
                               !.originalBuffer = extracted.value])
    /\ UNCHANGED <<variant, files, now, ticks, sweep, dl>>

\* if (outputFormat === 'jpeg' || outputFormat === 'jpg') ... else ...
TargetFormat(outputFormat) ==
    IF outputFormat \in {"jpeg", "jpg"} THEN "jpeg" ELSE "png"

MimeOf(fmt) == IF fmt = "jpeg" THEN "image/jpeg" ELSE "image/png"

\* one run of the Output Transcoder, as the effects log keeps it
Transcoding(input, maxWidth, outcome) ==
    [input |-> input, maxWidth |-> maxWidth, outcome |-> outcome]

Inline_Transcode(r) ==
    /\ variant = "inline"
    /\ req[r].pc = "transcode"
    /\ LET fmt == TargetFormat(req[r].outputFormat)
           processed == SharpTranscode(req[r].originalBuffer, req[r].maxWidth, fmt)
       IN  /\ effects' = [effects EXCEPT ![r].transcodes =
                   Append(@, Transcoding(req[r].originalBuffer, req[r].maxWidth,
                                         processed))]
           /\ IF processed.threw
              THEN CatchBlock(r, processed.error)
              ELSE /\ res' = [res EXCEPT ![r] =
                          Append(@, Res200Inline(MimeOf(fmt), processed.value,
                                                 req[r].outputFormat))]
                   /\ req' = [req EXCEPT ![r] = DoneReq(r)]
                   /\ UNCHANGED raised
    /\ UNCHANGED <<variant, files, now, ticks, sweep, dl>>

----------------------------------------------------------------------------
(* Persistence deployment, src/unnamed/part_001 *)

\* the load without the status check
LoadImageRaw_IgnoreStatus(f, prefix) ==
    IF f.kind = "reject"
    THEN Throw(Error(<<"fetch failed">>))
    ELSE Return([base64 |-> ToBase64(f.body), mimeType |-> DeclaredType(f)])

\* fetch, check the status, read the body, encode base64: no normalization
LoadImageRaw(f, prefix) ==
    IF f.kind = "reject"
    THEN Throw(Error(<<"fetch failed">>))
    ELSE IF ~f.ok
    THEN Throw(Error(<<prefix, f.statusText>>))
    ELSE Return([base64 |-> ToBase64(f.body), mimeType |-> DeclaredType(f)])

Persist_FetchMockup(r, f) ==
    /\ variant = "persist"
    /\ req[r].pc = "fetchMockup"
    /\ effects' = Fetched(r, "mockup", req[r].mockupUrl, f)
    /\ LET mockup == LoadImageRaw(f, "Failed to fetch mockup image: ")
       IN  IF mockup.threw
           THEN CatchBlock(r, mockup.error)
           ELSE Continue(r, [req[r] EXCEPT
                               !.pc = "fetchDesign",
                               !.mockupBase64 = mockup.value.base64,
                               !.mockupMimeType = mockup.value.mimeType])
    /\ UNCHANGED <<variant, files, now, ticks, sweep, dl>>

Persist_FetchDesign(r, f) ==
    /\ variant = "persist"
    /\ req[r].pc = "fetchDesign"
    /\ effects' = Fetched(r, "design", req[r].designUrl, f)
    /\ LET design == LoadImageRaw(f, "Failed to fetch design image: ")
       IN  IF design.threw
           THEN CatchBlock(r, design.error)
           ELSE Continue(r, [req[r] EXCEPT
                               !.pc = "generate",
                               !.designBase64 = design.value.base64,
                               !.designMimeType = design.value.mimeType])
    /\ UNCHANGED <<variant, files, now, ticks, sweep, dl>>

\* contents.parts handed to ai.models.generateContent
PersistPayload(q) ==
    <<ImagePart(q.mockupBase64, q.mockupMimeType),
      ImagePart(q.designBase64, q.designMimeType),
      PromptPart("two")>>

\* the persistence deployment's result extraction: the bytes of the part the
\* loop stops at, or the error
Persist_Extract(g) ==
    IF g.kind = "reject"
    THEN Throw(Error(<<"GoogleGenAI Error">>))
    ELSE IF NoCandidates(g)
    THEN Throw(Error(<<"No response from AI model">>))
    ELSE IF ~HasContent(g)
    THEN Throw(Error(<<"Cannot read properties of undefined">>))
    ELSE LET parts == g.candidates[1].parts
             i == FirstInline(parts, 1)
         IN  IF i = 0
             THEN Throw(Error(<<"No image in response">>))
             ELSE Return(FromBase64(parts[i].data))

\* the model call, and the loop up to its await: the filename is made from
\* Date.now() and crypto.randomBytes(8) before the image is compressed
Persist_Generate(r, g, randomId) ==
    /\ variant = "persist"
    /\ req[r].pc = "generate"
    /\ effects' = [effects EXCEPT ![r].modelCalls =
                       Append(@, [payload |-> PersistPayload(req[r]), answer |-> g])]
    /\ LET extracted == Persist_Extract(g)
       IN  IF extracted.threw
           THEN CatchBlock(r, extracted.error)
           ELSE Continue(r, [req[r] EXCEPT
                               !.pc = "transcode",
                               !.filename = Filename(now, randomId),
                               !.originalBuffer = extracted.value])
    /\ UNCHANGED <<variant, files, now, ticks, sweep, dl>>

\* a write that never reaches the disk
WriteFile_Skipped(dir, filename, data) == dir

\* fs.writeFileSync(filepath, data): creates the file or replaces its content
WriteFile(dir, filename, data) ==
    [f \in DOMAIN dir \cup {filename} |->
        IF f = filename THEN [mtimeMs |-> now, data |-> data] ELSE dir[f]]

\* compress, save under uploads, answer with the URL
Persist_Transcode(r, writeOk) ==
    /\ variant = "persist"
    /\ req[r].pc = "transcode"
    /\ LET compressed == SharpTranscode(req[r].originalBuffer, DefaultMaxWidth, "jpeg")
           logged == [effects EXCEPT ![r].transcodes =
                        Append(@, Transcoding(req[r].originalBuffer, DefaultMaxWidth,
                                              compressed))]
       IN  IF compressed.threw
           THEN /\ CatchBlock(r, compressed.error)
                /\ effects' = logged
                /\ UNCHANGED files
           ELSE IF ~writeOk
           THEN /\ CatchBlock(r, Error(<<"ENOSPC: no space left on device, write">>))
                /\ effects' = logged
                /\ UNCHANGED files
           ELSE /\ files' = WriteFile(files, req[r].filename, compressed.value)
                /\ effects' = [logged EXCEPT ![r].written = Append(@, req[r].filename)]
                /\ res' = [res EXCEPT ![r] = Append(@, Res200Persist(req[r].filename))]
                /\ req' = [req EXCEPT ![r] = DoneReq(r)]
                /\ UNCHANGED raised
    /\ UNCHANGED <<variant, now, ticks, sweep, dl>>

----------------------------------------------------------------------------
(* GET /download/:filename, src/unnamed/part_001 *)

NoDownload == [pc |-> "idle", filename |-> NoFile, res |-> <<>>]

Res404 == [status |-> 404,
           body |-> [success |-> FALSE, error |-> <<"File not found">>]]

\* the file's bytes, streamed
ResFile(data) == [status |-> 200, body |-> [file |-> data]]

\* res.download(filepath) was given no callback: when the file cannot be read
\* the error goes to next(err) and Express's default error handler answers
\* with the error's status and its own error page
ResExpressError == [status |-> 404, body |-> [page |-> "NotFoundError: Not Found"]]

\* the handler: fs.existsSync(filepath), then the 404 or res.download(filepath),
\* which reads the file after the handler has returned
Download(filename) ==
    /\ variant = "persist"
    /\ dl.pc \in {"idle", "done"}
    /\ dl' = IF filename \notin DOMAIN files
             THEN [pc |-> "done", filename |-> NoFile, res |-> <<Res404>>]
             ELSE [pc |-> "sending", filename |-> filename, res |-> <<>>]
    /\ UNCHANGED <<variant, req, res, raised, effects, files, now, ticks, sweep>>

\* res.download gets to the file
DownloadSend ==
    /\ dl.pc = "sending"
    /\ dl' = [dl EXCEPT
                !.pc = "done",
                !.filename = NoFile,
                !.res = <<IF dl.filename \in DOMAIN files
                          THEN ResFile(files[dl.filename].data)
                          ELSE ResExpressError>>]
    /\ UNCHANGED <<variant, req, res, raised, effects, files, now, ticks, sweep>>

----------------------------------------------------------------------------
(* Retention sweep, src/unnamed/part_001 *)

\* fs.unlinkSync(filepath)
Unlink(dir, file) == [f \in DOMAIN dir \ {file} |-> dir[f]]

\* the retention test with >= for >
Expired_AtLimit(age) == age >= maxAge

\* if (age > maxAge)
Expired(age) == age > maxAge

\* files.forEach(file => { stat; if (age > maxAge) unlink }) from index i on,
\* with every filesystem call succeeding
RECURSIVE SweepFrom(_, _, _, _)
SweepFrom(listing, i, dir, t) ==
    IF i > Len(listing) THEN dir
    ELSE LET file == listing[i]
             age == t - dir[file].mtimeMs
         IN  SweepFrom(listing, i + 1,
                       IF Expired(age) THEN Unlink(dir, file) ELSE dir, t)

\* one run of cleanupOldFiles over the listing readdirSync returned. failAt = 0:
\* no call fails. failAt = k > 0: the k-th listed file was removed by another
\* process after the listing was read, statSync throws on it, the exception
\* leaves forEach and is logged by the catch block
CleanupResult(listing, failAt, dir, t) ==
    IF failAt = 0
    THEN SweepFrom(listing, 1, dir, t)
    ELSE Unlink(SweepFrom(SubSeq(listing, 1, failAt - 1), 1, dir, t), listing[failAt])

\* deletedCount when the run ends: the files the run itself unlinked
DeletedCount(listing, failAt, dir, t) ==
    LET done == IF failAt = 0 THEN listing ELSE SubSeq(listing, 1, failAt - 1)
    IN  Cardinality(DOMAIN dir) - Cardinality(DOMAIN SweepFrom(done, 1, dir, t))

\* the orders in which readdirSync may list the directory
Listings(dir) ==
    {l \in [1..Cardinality(DOMAIN dir) -> DOMAIN dir] :
        \A i, j \in DOMAIN l : i # j => l[i] # l[j]}

\* the last run: when it ran, which listed file it failed on (0: none) and
\* its deletedCount
NoSweep == [ran |-> FALSE, at |-> 0, failAt |-> 0, deletedCount |-> 0]

\* setInterval(cleanupOldFiles, 60 * 60 * 1000): the timer fires
cleanupOldFiles(listing, failAt) ==
    /\ variant = "persist"
    /\ files' = CleanupResult(listing, failAt, files, now)
    /\ sweep' = [ran |-> TRUE, at |-> now, failAt |-> failAt,
                 deletedCount |-> DeletedCount(listing, failAt, files, now)]
    /\ UNCHANGED <<variant, req, res, raised, effects, now, ticks, dl>>

----------------------------------------------------------------------------
(* Environment *)

\* time passes: by a millisecond, or by the retention window
ClockSteps == {1, maxAge}

Tick(d) ==
    /\ ticks < MaxTicks
    /\ now' = now + d
    /\ ticks' = ticks + 1
    /\ UNCHANGED <<variant, req, res, raised, effects, files, sweep, dl>>

\* another process removes a file from the uploads directory
ExternalDelete(file) ==
    /\ file \in DOMAIN files
    /\ files' = Unlink(files, file)
    /\ UNCHANGED <<variant, req, res, raised, effects, now, ticks, sweep, dl>>

----------------------------------------------------------------------------
(* The server *)

Init ==
    /\ variant \in {"inline", "persist"}
    /\ req = [r \in Reqs |-> IdleReq]
    /\ res = [r \in Reqs |-> <<>>]
    /\ raised = [r \in Reqs |-> <<>>]
    /\ effects = [r \in Reqs |-> NoEffects]
    /\ files = NoFields
    /\ now = 0
    /\ ticks = 0
    /\ sweep = NoSweep
    /\ dl = NoDownload

\* a name no file has
MissingFile == Filename(0, "ffff")

\* The request path of either deployment: one request at a time, every input
\* the environment can hand to it.
Next ==
    \/ \E body \in Bodies : Receive("r1", body)
    \/ \E f \in FetchOutcomes : Inline_FetchMockup("r1", f)
    \/ \E f \in FetchOutcomes : Inline_FetchDesign("r1", f)
    \/ \E f \in FetchOutcomes : Inline_FetchReference("r1", f)
    \/ \E g \in ModelOutcomes : Inline_Generate("r1", g)
    \/ Inline_Transcode("r1")
    \/ \E f \in FetchOutcomes : Persist_FetchMockup("r1", f)
    \/ \E f \in FetchOutcomes : Persist_FetchDesign("r1", f)
    \/ \E g \in ModelOutcomes, id \in RandomIds : Persist_Generate("r1", g, id)
    \/ \E writeOk \in BOOLEAN : Persist_Transcode("r1", writeOk)

Spec == Init /\ [][Next]_vars

\* The uploads directory of the persistence deployment: concurrent requests
\* that write files, downloads, the retention sweep, the clock and other
\* processes. The requests are given well-formed inputs.
GoodBodies == {b \in Bodies : DOMAIN b = {"mockupUrl", "designUrl"}
                              /\ ~MissingRequired(b.mockupUrl, b.designUrl)}
GoodFetches == {f \in FetchOutcomes :
                  f.kind = "response" /\ f.ok /\ f.contentType = "image/png"
                  /\ f.body.fmt = "png"}
GoodAnswers == {g \in ModelOutcomes :
                  g.kind = "response" /\ g.hasCandidates /\ Len(g.candidates) = 1
                  /\ g.candidates[1].hasContent
                  /\ g.candidates[1].parts \in
                       {<<InlinePart(ToBase64(b))>> : b \in {Buf("png", "src", 3, 2)}}}

InitUploads == Init /\ variant = "persist"

NextUploads ==
    \/ \E body \in GoodBodies : Receive("r1", body)
    \/ \E f \in GoodFetches : Persist_FetchMockup("r1", f)
    \/ \E f \in GoodFetches : Persist_FetchDesign("r1", f)
    \/ \E g \in GoodAnswers : Persist_Generate("r1", g, "a1")
    \/ \E writeOk \in BOOLEAN : Persist_Transcode("r1", writeOk)
    \/ \E filename \in DOMAIN files \cup {MissingFile} : Download(filename)
    \/ DownloadSend
    \/ \E listing \in Listings(files), failAt \in 0..Cardinality(DOMAIN files) :
           cleanupOldFiles(listing, failAt)
    \/ \E d \in ClockSteps : Tick(d)
    \/ \E file \in DOMAIN files : ExternalDelete(file)

SpecUploads == InitUploads /\ [][NextUploads]_vars

----------------------------------------------------------------------------
(* The Image Normalizer on every fetch result: the inline deployment's fetch
   steps, with every declared type paired with every body *)

InlineBodies == {b \in Bodies : /\ {"mockupUrl", "designUrl"} \subseteq DOMAIN b
                                /\ ~MissingRequired(b.mockupUrl, b.designUrl)
                                /\ DOMAIN b \subseteq
                                     {"mockupUrl", "designUrl", "referenceUrl"}}

InitNormalizer == Init /\ variant = "inline"

NextNormalizer ==
    \/ \E body \in InlineBodies : Receive("r1", body)
    \/ \E f \in AllFetchOutcomes : Inline_FetchMockup("r1", f)
    \/ \E f \in AllFetchOutcomes : Inline_FetchDesign("r1", f)
    \/ \E f \in AllFetchOutcomes : Inline_FetchReference("r1", f)

SpecNormalizer == InitNormalizer /\ [][NextNormalizer]_vars

----------------------------------------------------------------------------
(* The Output Transcoder on every image size: a request of either deployment
   that has reached its transcode step, with the image the model returned and
   the caller's maxWidth drawn from the sizes below *)

DimValues == (1..MaxDim) \cup {DefaultMaxWidth, DefaultMaxWidth + 1,
                                2 * DefaultMaxWidth + 1}
ModelImages == {Buf("png", "src", w, h) : w, h \in DimValues}
MaxWidths == (0..MaxDim) \cup {DefaultMaxWidth}

\* the locals and effects of a request whose model call returned image
AtTranscode(v, image, maxWidth, outputFormat) ==
    LET fetched == [kind |-> "response", ok |-> TRUE, statusText |-> "OK",
                    contentType |-> "image/png", body |-> Buf("png", "src", 2, 2)]
        q == [IdleReq EXCEPT
                !.pc = "transcode",
                !.body = ("mockupUrl" :> "https://x/mug") @@ ("designUrl" :> "https://x/logo"),
                !.mockupUrl = "https://x/mug",
                !.designUrl = "https://x/logo",
                !.mockupBase64 = ToBase64(fetched.body),
                !.mockupMimeType = "image/png",
                !.designBase64 = ToBase64(fetched.body),
                !.designMimeType = "image/png",
                !.outputFormat = IF v = "inline" THEN outputFormat ELSE Undefined,
                !.maxWidth = IF v = "inline" THEN maxWidth ELSE 0,
                !.filename = IF v = "inline" THEN NoFile ELSE Filename(0, "a1"),
                !.originalBuffer = image]
        answer == [kind |-> "response", hasCandidates |-> TRUE,
                   candidates |-> <<[hasContent |-> TRUE,
                                     parts |-> <<InlinePart(ToBase64(image))>>]>>]
    IN  [req |-> q,
         effects |->
            [fetched |-> <<[which |-> "mockup", url |-> q.mockupUrl, outcome |-> fetched],
                           [which |-> "design", url |-> q.designUrl, outcome |-> fetched]>>,
             modelCalls |-> <<[payload |-> IF v = "inline" THEN InlinePayload(q)
                                           ELSE PersistPayload(q),
                               answer |-> answer]>>,
             transcodes |-> <<>>,
             written |-> <<>>]]

InitTranscoder ==
    /\ variant \in {"inline", "persist"}
    /\ \E image \in ModelImages \cup {EmptyBuf}, m \in MaxWidths,
          fmt \in {"jpeg", "png"} :
          LET at == AtTranscode(variant, image, m, fmt)
          IN  /\ req = [r \in Reqs |-> IF r = "r1" THEN at.req ELSE IdleReq]
              /\ effects = [r \in Reqs |-> IF r = "r1" THEN at.effects ELSE NoEffects]
    /\ res = [r \in Reqs |-> <<>>]
    /\ raised = [r \in Reqs |-> <<>>]
    /\ files = NoFields
    /\ now = 0
    /\ ticks = 0
    /\ sweep = NoSweep
    /\ dl = NoDownload

NextTranscoder ==
    \/ Inline_Transcode("r1")
    \/ \E writeOk \in BOOLEAN : Persist_Transcode("r1", writeOk)

SpecTranscoder == InitTranscoder /\ [][NextTranscoder]_vars

----------------------------------------------------------------------------
(* File naming in the persistence deployment: two requests in flight at the
   same time or one after the other, each drawing its own random bytes *)

InitFilenames == Init /\ variant = "persist"

NextFilenames ==
    \/ \E r \in Reqs, body \in GoodBodies : Receive(r, body)
    \/ \E r \in Reqs, f \in GoodFetches : Persist_FetchMockup(r, f)
    \/ \E r \in Reqs, f \in GoodFetches : Persist_FetchDesign(r, f)
    \/ \E r \in Reqs, g \in GoodAnswers, id \in RandomIds : Persist_Generate(r, g, id)
    \/ \E r \in Reqs, writeOk \in BOOLEAN : Persist_Transcode(r, writeOk)
    \/ \E d \in ClockSteps : Tick(d)

SpecFilenames == InitFilenames /\ [][NextFilenames]_vars

----------------------------------------------------------------------------
(* Properties *)

\* the body carries the field with a truthy value
HasTruthy(body, name) == name \in DOMAIN body /\ body[name] \notin {"", Undefined}

\* the 500 the error handling answers with, carrying message
ErrorResponse(message) ==
    [status |-> 500,
     body |-> [success |-> FALSE,
               error |-> <<"Failed to generate mockup">>,
               message |-> message]]

\* C1: a request whose body lacks a truthy mockupUrl or a truthy designUrl is
\* answered with the 400 "Missing required fields: mockupUrl and designUrl",
\* and on that request nothing is fetched, the external model is not called,
\* nothing is transcoded and no file is written.
C1_MissingFieldsRejected ==
    \A r \in Reqs :
        (/\ req[r].pc # "idle"
         /\ ~(HasTruthy(req[r].body, "mockupUrl") /\ HasTruthy(req[r].body, "designUrl")))
        => /\ req[r].pc = "done"
           /\ res[r] = <<[status |-> 400,
                          body |-> [success |-> FALSE,
                                    error |-> <<"Missing required fields: mockupUrl and designUrl">>]]>>
           /\ effects[r] = NoEffects

C1_Witness ==
    \E r \in Reqs :
        /\ req[r].pc = "done"
        /\ HasTruthy(req[r].body, "mockupUrl")
        /\ ~HasTruthy(req[r].body, "designUrl")
        /\ Len(res[r]) = 1 /\ res[r][1].status = 400

\* C2: every error that is raised after validation is caught by the handler:
\* the request ends with exactly one response, the 500 "Failed to generate
\* mockup" whose message is the raised error's message.
C2_ErrorsAnswered500 ==
    \A r \in Reqs :
        raised[r] # <<>>
        => /\ Len(raised[r]) = 1
           /\ req[r].pc = "done"
           /\ res[r] = <<ErrorResponse(raised[r][1].message)>>

C2_Witness ==
    \E r \in Reqs :
        /\ raised[r] # <<>>
        /\ raised[r][1].message[1] = "Failed to convert image to PNG: "
        /\ res[r] = <<ErrorResponse(raised[r][1].message)>>

\* the k-th fetch of request r came back with a non-success status
NotOk(r, k) ==
    LET f == effects[r].fetched[k].outcome IN f.kind = "response" /\ ~f.ok

\* C3 as stated: whenever the fetch of any of the request's URLs, the
\* reference URL included, returns a non-success status, the request is
\* answered with a 500 and the external model is not called.
C3_AnyFetchFailureEnds ==
    \A r \in Reqs : \A k \in DOMAIN effects[r].fetched :
        NotOk(r, k)
        => /\ effects[r].modelCalls = <<>>
           /\ req[r].pc = "done"
           /\ Len(res[r]) = 1 /\ res[r][1].status = 500

\* C3, amended: a non-success status for mockupUrl or designUrl ends the
\* request with the 500 carrying "Failed to fetch ...: <statusText>" and the
\* external model is not called; a non-success status for referenceUrl is
\* skipped: the request goes on to the model call without a reference image.
C3_RequiredFetchFailureEnds ==
    \A r \in Reqs : \A k \in DOMAIN effects[r].fetched :
        LET e == effects[r].fetched[k]
        IN  NotOk(r, k)
            => IF e.which \in {"mockup", "design"}
               THEN /\ effects[r].modelCalls = <<>>
                    /\ req[r].pc = "done"
                    /\ Len(res[r]) = 1
                    /\ res[r][1].status = 500
                    /\ res[r][1].body.message[1] \in
                         {"Failed to fetch mockup: ", "Failed to fetch design: ",
                          "Failed to fetch mockup image: ",
                          "Failed to fetch design image: "}
                    /\ res[r][1].body.message[2] = e.outcome.statusText
               ELSE /\ req[r].pc \in {"generate", "transcode", "done"}
                    /\ req[r].pc = "generate" => req[r].referenceBase64 = Null
                    /\ req[r].pc # "generate" =>
                         /\ Len(effects[r].modelCalls) = 1
                         /\ Len(effects[r].modelCalls[1].payload) = 3

C3_Witness ==
    \E r \in Reqs :
        /\ Len(effects[r].fetched) = 2
        /\ NotOk(r, 2)
        /\ effects[r].fetched[2].which = "design"
        /\ Len(res[r]) = 1 /\ res[r][1].status = 500

\* the model answered the k-th call of request r with no candidates
AnsweredNoCandidates(r, k) ==
    LET a == effects[r].modelCalls[k].answer
    IN  a.kind = "response" /\ (~a.hasCandidates \/ Len(a.candidates) = 0)

\* C4: when the model's response has no candidates field or an empty
\* candidate list, the request is answered with the 500 whose message is
\* "No response from AI model"; nothing is transcoded, no file is written.
C4_NoCandidatesAnswered500 ==
    \A r \in Reqs : \A k \in DOMAIN effects[r].modelCalls :
        AnsweredNoCandidates(r, k)
        => /\ req[r].pc = "done"
           /\ res[r] = <<ErrorResponse(<<"No response from AI model">>)>>
           /\ effects[r].transcodes = <<>>
           /\ effects[r].written = <<>>

C4_Witness ==
    \E r \in Reqs :
        /\ Len(effects[r].modelCalls) = 1
        /\ effects[r].modelCalls[1].answer.kind = "response"
        /\ effects[r].modelCalls[1].answer.hasCandidates
        /\ effects[r].modelCalls[1].answer.candidates = <<>>
        /\ Len(res[r]) = 1 /\ res[r][1].status = 500

\* the parts of the first candidate of the answer to request r's model call
AnsweredParts(r) ==
    LET a == effects[r].modelCalls[1].answer
    IN  IF /\ a.kind = "response" /\ a.hasCandidates /\ Len(a.candidates) > 0
           /\ a.candidates[1].hasContent
        THEN <<a.candidates[1].parts>>
        ELSE <<>>

InlineIndices(parts) == {i \in DOMAIN parts : parts[i].inlineData}
Lowest(S) == CHOOSE i \in S : \A j \in S : i <= j

\* C5: extraction is first-match. Whatever is transcoded is the data of the
\* lowest-index part that has inlineData; a success response returns the
\* transcoding of exactly that part (inline: in the image field; persistence:
\* in the file it names); when no part has inlineData the request fails with
\* the 500 "No image in response" and nothing is transcoded.
C5_FirstInlinePartWins ==
    \A r \in Reqs :
        (effects[r].modelCalls # <<>> /\ AnsweredParts(r) # <<>>)
        => LET parts == AnsweredParts(r)[1]
               inl == InlineIndices(parts)
               ts == effects[r].transcodes
           IN  /\ inl = {} =>
                     /\ req[r].pc = "done"
                     /\ res[r] = <<ErrorResponse(<<"No image in response">>)>>
                     /\ ts = <<>>
               /\ \A k \in DOMAIN ts :
                     /\ inl # {}
                     /\ ts[k].input = FromBase64(parts[Lowest(inl)].data)
               /\ (res[r] # <<>> /\ res[r][1].status = 200) =>
                     /\ Len(ts) = 1
                     /\ ~ts[1].outcome.threw
                     /\ IF variant = "inline"
                        THEN res[r][1].body.image.base64 = ToBase64(ts[1].outcome.value)
                        ELSE /\ effects[r].written = <<res[r][1].body.filename>>
                             /\ res[r][1].body.filename \in DOMAIN files =>
                                  files[res[r][1].body.filename].data = ts[1].outcome.value

C5_Witness ==
    \E r \in Reqs :
        /\ effects[r].modelCalls # <<>>
        /\ AnsweredParts(r) # <<>>
        /\ LET parts == AnsweredParts(r)[1]
           IN  /\ Len(parts) = 2
               /\ parts[1].inlineData /\ parts[2].inlineData
               /\ parts[1].data # parts[2].data
               /\ parts[2].data # ToBase64(EmptyBuf)
        /\ Len(res[r]) = 1 /\ res[r][1].status = 200

\* C6: in the inline deployment every image handed to the external model has
\* passed the normalizer, so its bytes decode as PNG: bytes that are no image
\* never reach the model.
C6_OnlyPngReachesModel ==
    \A r \in Reqs :
        variant = "inline"
        => \A k \in DOMAIN effects[r].modelCalls :
               LET payload == effects[r].modelCalls[k].payload
               IN  \A j \in DOMAIN payload :
                       payload[j].kind = "inlineData"
                       => FromBase64(payload[j].data).fmt = "png"

\* the k-th fetch of request r succeeded and declared image/png, by its
\* content-type header or, the header absent, by default
DeclaredPng(r, k) ==
    LET f == effects[r].fetched[k].outcome
    IN  f.kind = "response" /\ f.ok /\ f.contentType \in {"image/png", Undefined}

\* the base64 string and MIME type request r holds for an image
Held(r, which) ==
    CASE which = "mockup" -> <<req[r].mockupBase64, req[r].mockupMimeType>>
      [] which = "design" -> <<req[r].designBase64, req[r].designMimeType>>
      [] which = "reference" -> <<req[r].referenceBase64, req[r].referenceMimeType>>

\* C7: normalizer fast path. When the declared type is image/png the
\* normalizer does not fail and hands back the very bytes it was given, with
\* mimeType image/png: the request goes on holding exactly the fetched bytes.
C7_FastPathIdentity ==
    \A r \in Reqs :
        variant = "inline"
        => \A k \in DOMAIN effects[r].fetched :
               LET e == effects[r].fetched[k]
               IN  DeclaredPng(r, k)
                   => /\ ~(k = Len(effects[r].fetched) /\ raised[r] # <<>>)
                      /\ req[r].pc # "done" =>
                           Held(r, e.which) = <<ToBase64(e.outcome.body), "image/png">>

C7_Witness ==
    \E r \in Reqs :
        /\ variant = "inline"
        /\ req[r].pc = "fetchDesign"
        /\ DeclaredPng(r, 1)
        /\ effects[r].fetched[1].outcome.body.fmt = "jpeg"
        /\ req[r].mockupBase64 = ToBase64(effects[r].fetched[1].outcome.body)

Abs(x) == IF x < 0 THEN -x ELSE x

\* what C8 says of the size of every successful transcoding, but for the
\* aspect ratio
WithinLimits(t) ==
    LET W == t.input.w
        H == t.input.h
        o == t.outcome.value
    IN  /\ o.w <= t.maxWidth /\ o.h <= t.maxWidth
        /\ o.w <= W /\ o.h <= H
        /\ o.w >= 1 /\ o.h >= 1
        /\ (W <= t.maxWidth /\ H <= t.maxWidth) => (o.w = W /\ o.h = H)

\* C8 as stated: a successful transcoding is inside maxWidth x maxWidth, is
\* not enlarged, is unchanged in size when it already fits, and has exactly
\* the input's aspect ratio.
C8_ExactAspectRatio ==
    \A r \in Reqs : \A k \in DOMAIN effects[r].transcodes :
        LET t == effects[r].transcodes[k]
        IN  ~t.outcome.threw
            => /\ WithinLimits(t)
               /\ t.outcome.value.w * t.input.h = t.outcome.value.h * t.input.w

\* C8, amended: as stated, with the aspect ratio kept up to whole pixels: the
\* shorter output side is less than one pixel away from the exact
\* proportional value.
C8_FitInsideNoEnlargement ==
    \A r \in Reqs : \A k \in DOMAIN effects[r].transcodes :
        LET t == effects[r].transcodes[k]
        IN  ~t.outcome.threw
            => /\ WithinLimits(t)
               /\ Abs(t.outcome.value.w * t.input.h - t.outcome.value.h * t.input.w)
                    < Max(t.input.w, t.input.h)

C8_Witness ==
    \E r \in Reqs :
        /\ Len(effects[r].transcodes) = 1
        /\ ~effects[r].transcodes[1].outcome.threw
        /\ effects[r].transcodes[1].input.w > effects[r].transcodes[1].maxWidth
        /\ effects[r].transcodes[1].outcome.value.w = effects[r].transcodes[1].maxWidth
        /\ effects[r].transcodes[1].outcome.value.h < effects[r].transcodes[1].input.h
        /\ Len(res[r]) = 1 /\ res[r][1].status = 200

\* C9: in a run of cleanupOldFiles in which no filesystem call fails, a file
\* of the uploads directory is gone afterwards exactly when its age at the
\* run, now minus its mtime, is greater than 24 hours; a file aged 24 hours
\* or less, exactly 24 hours included, stays.
C9_RetentionDecision ==
    [][(sweep' # sweep /\ sweep'.failAt = 0)
       => \A f \in DOMAIN files :
              (f \in DOMAIN files') <=> (now - files[f].mtimeMs <= 24 * 60 * 60 * 1000)]_vars

C9_Witness ==
    /\ sweep.ran
    /\ sweep.failAt = 0
    /\ sweep.deletedCount >= 1
    /\ now = sweep.at
    /\ \E f \in DOMAIN files : sweep.at - files[f].mtimeMs = 24 * 60 * 60 * 1000

\* C10: a download ends with the file's bytes or with the 404
\* {success: false, error: "File not found"}, whatever deletion interleaves
\* with it.
C10_DownloadFileOrNotFound ==
    dl.pc = "done"
    => /\ Len(dl.res) = 1
       /\ \/ dl.res[1] = [status |-> 404,
                          body |-> [success |-> FALSE, error |-> <<"File not found">>]]
          \/ dl.res[1].status = 200 /\ DOMAIN dl.res[1].body = {"file"}

\* request r fetched the image and the fetch came back with a success status
Loaded(r, which) ==
    \E k \in DOMAIN effects[r].fetched :
        LET e == effects[r].fetched[k]
        IN  e.which = which /\ e.outcome.kind = "response" /\ e.outcome.ok

\* the payload part is an image part holding what request r fetched for
\* which (the very bytes fetched, when they were declared image/png)
Carries(r, part, which) ==
    /\ part.kind = "inlineData"
    /\ \E k \in DOMAIN effects[r].fetched :
          /\ effects[r].fetched[k].which = which
          /\ effects[r].fetched[k].outcome.kind = "response"
          /\ effects[r].fetched[k].outcome.ok
          /\ DeclaredPng(r, k) =>
                part.data = ToBase64(effects[r].fetched[k].outcome.body)

\* C11 as stated: the payload of every model call starts with the instruction
\* text, followed by the reference image when one was loaded, then the mockup
\* image, then the design image: two images without a reference, three with.
C11_TextFirstPayload ==
    \A r \in Reqs : \A i \in DOMAIN effects[r].modelCalls :
        LET p == effects[r].modelCalls[i].payload
            n == Len(p)
        IN  /\ n = IF Loaded(r, "reference") THEN 4 ELSE 3
            /\ p[1].kind = "text"
            /\ Carries(r, p[n], "design")
            /\ Carries(r, p[n - 1], "mockup")
            /\ n = 4 => Carries(r, p[2], "reference")

\* C11, amended: the payload of every model call is the reference image when
\* one was loaded, then the mockup image, then the design image, and the
\* instruction text last: two images without a reference, three with.
C11_TextLastPayload ==
    \A r \in Reqs : \A i \in DOMAIN effects[r].modelCalls :
        LET p == effects[r].modelCalls[i].payload
            n == Len(p)
        IN  /\ n = IF Loaded(r, "reference") THEN 4 ELSE 3
            /\ p[n].kind = "text"
            /\ Carries(r, p[n - 1], "design")
            /\ Carries(r, p[n - 2], "mockup")
            /\ n = 4 => Carries(r, p[1], "reference")

C11_Witness ==
    \E r \in Reqs :
        /\ Len(effects[r].modelCalls) = 1
        /\ Loaded(r, "reference")
        /\ Len(effects[r].modelCalls[1].payload) = 4
        /\ effects[r].fetched[1].outcome.body # effects[r].fetched[2].outcome.body
        /\ effects[r].fetched[3].outcome.body # effects[r].fetched[1].outcome.body

\* C12: a failure on one file during a run of cleanupOldFiles does not abort
\* the run: every other file of the directory whose age at the run is over
\* 24 hours is still deleted by that run.
C12_SweepSurvivesFailure ==
    [][(sweep' # sweep /\ sweep'.failAt > 0)
       => \A f \in DOMAIN files :
              (now - files[f].mtimeMs > 24 * 60 * 60 * 1000) => f \notin DOMAIN files']_vars

Writes(r) == Len(effects'[r].written) > Len(effects[r].written)

C14_ExactlyOneResponse ==
    \A r \in Reqs :
        /\ Len(res[r]) <= 1
        /\ req[r].pc = "done" => Len(res[r]) = 1
        /\ \A k \in DOMAIN res[r] :
              /\ res[r][k].status \in {200, 400, 500}
              /\ res[r][k].body.success <=> res[r][k].status = 200

C14_Witness ==
    \E r \in Reqs :
        /\ req[r].pc = "done"
        /\ Len(effects[r].modelCalls) = 1
        /\ effects[r].modelCalls[1].answer.kind = "reject"
        /\ Len(raised[r]) = 1
        /\ Len(res[r]) = 1
        /\ res[r][1].status = 500
        /\ ~res[r][1].body.success

\* C15: the order of a request's steps. The external model is called at most
\* once, and only after the mockup fetch and the design fetch both came back
\* with a success status (in the inline deployment the two images it is sent
\* are PNG-typed, as the normalizer leaves them); the design is fetched only
\* after the mockup fetch succeeded; each of the request's URLs (mockupUrl,
\* designUrl, referenceUrl) is fetched at most once, so nothing is retried.
C15_StepOrder ==
    \A r \in Reqs :
        LET fs == effects[r].fetched
            calls == effects[r].modelCalls
        IN  /\ Len(calls) <= 1
            /\ calls # <<>> =>
                  /\ Loaded(r, "mockup") /\ Loaded(r, "design")
                  /\ variant = "inline" =>
                        LET p == calls[1].payload
                        IN  /\ p[Len(p) - 1].mimeType = "image/png"
                            /\ p[Len(p) - 2].mimeType = "image/png"
            /\ \A k \in DOMAIN fs :
                  fs[k].which = "design" =>
                      \E j \in 1..(k - 1) :
                          /\ fs[j].which = "mockup"
                          /\ fs[j].outcome.kind = "response" /\ fs[j].outcome.ok
            /\ \A j, k \in DOMAIN fs :
                  j # k => fs[j].which # fs[k].which

C15_Witness ==
    \E r \in Reqs :
        /\ Len(effects[r].modelCalls) = 1
        /\ Len(effects[r].fetched) = 3
        /\ effects[r].fetched[1].which = "mockup"
        /\ effects[r].fetched[2].which = "design"
        /\ Loaded(r, "mockup") /\ Loaded(r, "design")
        /\ req[r].pc = "done"

\* request r's handler returns in this step
Answers(r) ==
    /\ req'[r].pc = "done"
    /\ <<req[r], res[r], effects[r]>>' # <<req[r], res[r], effects[r]>>

\* C16: in the persistence deployment the file is on disk when the success
\* response is sent. At the step that sends a 200 the file named by its
\* filename field is in the uploads directory, the request has written that
\* file and no other, and the url field ends with /uploads/<filename>; a
\* request never writes more than one file; at the step that sends a 400 or a
\* 500 the uploads directory is left as it was and the request has written
\* nothing.
C16_SavedBeforeSuccess ==
    [][variant = "persist" =>
         \A r \in Reqs :
            /\ Len(effects'[r].written) <= 1
            /\ Answers(r) =>
                  /\ Len(res'[r]) = 1
                  /\ LET a == res'[r][1]
                     IN  IF a.status = 200
                         THEN /\ a.body.filename \in DOMAIN files'
                              /\ effects'[r].written = <<a.body.filename>>
                              /\ a.body.url.path = "/uploads/"
                              /\ a.body.url.filename = a.body.filename
                         ELSE /\ files' = files
                              /\ effects'[r].written = <<>>]_vars

C16_Witness ==
    \E r \in Reqs :
        /\ variant = "persist"
        /\ req[r].pc = "done"
        /\ Len(res[r]) = 1
        /\ res[r][1].status = 200
        /\ res[r][1].body.filename \in DOMAIN files
        /\ effects[r].written = <<res[r][1].body.filename>>
        /\ files[res[r][1].body.filename].data.fmt = "jpeg"

====
